---- MODULE Spec2Model ----
(***************************************************************************)
(* Model of src/adapters/openai/index.ts: the OpenAI function-calling      *)
(* adapter of Lusat.                                                       *)
(*                                                                         *)
(*   gptFunctions(actions)                       registry -> descriptors   *)
(*   gptFunctionCallToWorkflow(call, actions)    call record -> workflow   *)
(*   callFunction(call, actions)                 call record -> result     *)
(*                                                                         *)
(* JavaScript objects with optional fields (the call record, an action,    *)
(* a workflow step) are records whose DOMAIN is the set of keys present.   *)
(* The registry is an ordinary object literal, as in the doc comment of    *)
(* gptFunctions, so a property read on it also sees Object.prototype.      *)
(***************************************************************************)
EXTENDS Integers, Sequences, FiniteSets, TLC

\* Number of adapter calls (parse or execute) a behaviour may start.
MaxCalls == 2

VARIABLES
  registry,   \* the Actions object, as its entries in insertion order
  calls,      \* per call slot: the operation, its record, position, outcome
  counter,    \* observable side effect of the handlers: invocations so far
  exported    \* the last value returned by gptFunctions, if any

vars == <<registry, calls, counter, exported>>

CallIds == 1..MaxCalls

----------------------------------------------------------------------------
(* JavaScript values.  A value is [tag, fields]; fields is the set of      *)
(* <<key, <<type, text>>>> properties of an object.                        *)

Undefined == [tag |-> "undefined", fields |-> {}]

Null == [tag |-> "null", fields |-> {}]

Obj(fs) == [tag |-> "object", fields |-> fs]

StringValue(s) == [tag |-> "string", fields |-> {<<"", <<"string", s>>>>}]

HasField(v, k) == \E f \in v.fields : f[1] = k

Field(v, k) == (CHOOSE f \in v.fields : f[1] = k)[2]

(* Errors.  msg is the fixed part of the message, name the interpolated    *)
(* part.                                                                   *)
NoError == [type |-> "none", msg |-> "", name |-> ""]

MissingNameError == [type |-> "Error", msg |-> "Missing function name.", name |-> ""]

UnknownFunctionError(n) == [type |-> "Error", msg |-> "Unknown function", name |-> n]

JsonSyntaxError == [type |-> "SyntaxError", msg |-> "Unexpected token in JSON", name |-> ""]

ZodError(code, path) == [type |-> "ZodError", msg |-> code, name |-> path]

NotCallableError == [type |-> "TypeError", msg |-> "action.call is not a function", name |-> ""]

HandlerFailure(key) == [type |-> "HandlerError", msg |-> "handler failed", name |-> key]

----------------------------------------------------------------------------
(* Inputs: the argument texts a model may send, the call records built     *)
(* from them, and the registries of the embedding application.             *)

TextEmptyObject == "{}"

TextParis == "{\"location\":\"Paris\",\"unit\":\"C\"}"

TextWrongType == "{\"location\":7}"

TextNotJson == "{not json"

ArgumentTexts == {TextEmptyObject, TextParis, TextWrongType, TextNotJson}

\* Names that select an entry in some registry: every argument text is tried.
ActionNames == {"a", "b"}

\* Other names: a falsy one, unknown ones, and two that Object.prototype has.
OtherNames == {"", "nope", "weather", "toString", "__proto__"}

CallRecords ==
  {[q \in {} |-> ""], [arguments |-> TextNotJson]}
    \cup {[name |-> n] : n \in ActionNames \cup OtherNames}
    \cup {[name |-> n, arguments |-> t] : n \in ActionNames, t \in ArgumentTexts}
    \cup {[name |-> "nope", arguments |-> TextNotJson]}

R1 ==
  << [key |-> "a", action |-> [_args |-> "unary", _inputParser |-> "locRequired",
                               description |-> "Get the current weather",
                               handler |-> "return"]],
     [key |-> "b", action |-> [_args |-> "nullary", handler |-> "return"]] >>

R2 ==
  << [key |-> "b", action |-> [name |-> "a", _args |-> "nullary", handler |-> "hang"]],
     [key |-> "a", action |-> [name |-> "weather", _args |-> "unary",
                               _inputParser |-> "locDefault", handler |-> "return"]] >>

R3 ==
  << [key |-> "b", action |-> [_args |-> "unary", _inputParser |-> "locDefault",
                               handler |-> "throw"]],
     [key |-> "7", action |-> [_args |-> "nullary", handler |-> "return"]],
     [key |-> "a", action |-> [_args |-> "nullary", description |-> "Stop",
                               handler |-> "reject"]],
     [key |-> "2", action |-> [name |-> "two", _args |-> "nullary",
                               handler |-> "return"]] >>

Registries == {R1, R2, R3}

----------------------------------------------------------------------------
(* Library functions the adapter calls.                                    *)

\* JSON.parse on the texts above; any other text is not JSON.
JSONparse(text) ==
  CASE text = TextEmptyObject -> [ok |-> TRUE, value |-> Obj({}), error |-> NoError]
    [] text = TextParis ->
         [ok |-> TRUE,
          value |-> Obj({<<"location", <<"string", "Paris">>>>, <<"unit", <<"string", "C">>>>}),
          error |-> NoError]
    [] text = TextWrongType ->
         [ok |-> TRUE, value |-> Obj({<<"location", <<"number", "7">>>>}), error |-> NoError]
    [] text = "null" -> [ok |-> TRUE, value |-> Null, error |-> NoError]
    [] OTHER -> [ok |-> FALSE, value |-> Undefined, error |-> JsonSyntaxError]

(* ZodType.parse for the two input schemas of the registries:              *)
(*   locRequired  z.object({ location: z.string() })                       *)
(*   locDefault   z.object({ location: z.string().default("here") })       *)
(* z.object strips unknown keys; a default fills a missing key.            *)
InputParserParse(parser, value) ==
  IF value.tag # "object"
    THEN [ok |-> FALSE, value |-> Undefined, error |-> ZodError("invalid_type", "")]
  ELSE IF ~HasField(value, "location")
    THEN IF parser = "locDefault"
           THEN [ok |-> TRUE, value |-> Obj({<<"location", <<"string", "here">>>>}),
                 error |-> NoError]
           ELSE [ok |-> FALSE, value |-> Undefined,
                 error |-> ZodError("invalid_type", "location")]
  ELSE IF Field(value, "location")[1] # "string"
    THEN [ok |-> FALSE, value |-> Undefined, error |-> ZodError("invalid_type", "location")]
  ELSE [ok |-> TRUE, value |-> Obj({<<"location", Field(value, "location")>>}),
        error |-> NoError]

\* zodToJsonSchema: the JSON Schema of a parser, with its $schema dialect key.
zodToJsonSchema(parser) ==
  {<<"$schema", "http://json-schema.org/draft-07/schema#">>,
   <<"type", "object">>,
   <<"properties", "location:string">>,
   <<"required", IF parser = "locRequired" THEN "location" ELSE "">>,
   <<"additionalProperties", "false">>}

\* Keys that are array indices, which Object.entries lists first, ascending.
IndexKeys == [k \in {"0", "1", "2", "3", "4", "5", "6", "7", "8", "9"} |->
               CASE k = "0" -> 0 [] k = "1" -> 1 [] k = "2" -> 2 [] k = "3" -> 3
                 [] k = "4" -> 4 [] k = "5" -> 5 [] k = "6" -> 6 [] k = "7" -> 7
                 [] k = "8" -> 8 [] OTHER -> 9]

IsIndexKey(k) == k \in DOMAIN IndexKeys

IsIndexEntry(e) == IsIndexKey(e.key)

IsNamedEntry(e) == ~IsIndexKey(e.key)

\* Object.entries(actions): index keys in ascending order, then the string
\* keys in insertion order.
ObjectEntries(actions) ==
  LET idx == SelectSeq(actions, IsIndexEntry)
      At[d \in 0..10] ==
        IF d = 10 THEN <<>>
        ELSE LET hit == {i \in DOMAIN idx : IndexKeys[idx[i].key] = d}
             IN  (IF hit = {} THEN <<>> ELSE <<idx[CHOOSE i \in hit : TRUE]>>) \o At[d + 1]
  IN  At[0] \o SelectSeq(actions, IsNamedEntry)

OwnKeys(actions) == {actions[i].key : i \in DOMAIN actions}

\* What an ordinary object inherits (two of Object.prototype's members).
ObjectPrototype == [toString |-> "function", __proto__ |-> "object"]

(* actions[name]: the own entry, else the inherited member, else           *)
(* undefined.                                                              *)
GetProperty(actions, name) ==
  IF name \in OwnKeys(actions)
    THEN LET e == actions[CHOOSE i \in DOMAIN actions : actions[i].key = name]
         IN  [is |-> "action", key |-> e.key, action |-> e.action]
  ELSE IF name \in DOMAIN ObjectPrototype
    THEN [is |-> ObjectPrototype[name], key |-> name]
  ELSE [is |-> "undefined", key |-> name]

\* action._args === 'unary'
IsUnary(p) == p.is = "action" /\ p.action._args = "unary"

----------------------------------------------------------------------------
(* gptFunctions                                                            *)

\* The parameters of an action that takes no input.
EmptyObjectSchema == {<<"type", "object">>, <<"properties", "">>, <<"required", "">>}

\* Variant of ExportedName that ignores the display-name override.
ExportedNameKeyOnly(key, action) == key

\* action.name ?? name
ExportedName(key, action) == IF "name" \in DOMAIN action THEN action.name ELSE key

\* One element of the map over Object.entries(actions).
Descriptor(e) ==
  [name |-> ExportedName(e.key, e.action),
   description |-> IF "description" \in DOMAIN e.action
                     THEN StringValue(e.action.description) ELSE Undefined,
   parameters |-> IF e.action._args = "unary"
                    THEN {kv \in zodToJsonSchema(e.action._inputParser) : kv[1] # "$schema"}
                    ELSE EmptyObjectSchema]

gptFunctions(actions) ==
  LET entries == ObjectEntries(actions)
  IN  [i \in 1..Len(entries) |-> Descriptor(entries[i])]

----------------------------------------------------------------------------
(* gptFunctionCallToWorkflow                                               *)

\* !gptFunctionCall.name is false: the name is there and is not "".
HasName(gptFunctionCall) ==
  "name" \in DOMAIN gptFunctionCall /\ gptFunctionCall.name # ""

\* Variant of ArgumentsText without the default for absent arguments:
\* JSON.parse(undefined) reads the text "undefined".
ArgumentsTextNoDefault(gptFunctionCall) ==
  IF "arguments" \in DOMAIN gptFunctionCall THEN gptFunctionCall.arguments
  ELSE "undefined"

\* gptFunctionCall.arguments ?? '{}'
ArgumentsText(gptFunctionCall) ==
  IF "arguments" \in DOMAIN gptFunctionCall THEN gptFunctionCall.arguments
  ELSE TextEmptyObject

\* Variant of WorkflowStep that leaves the input key out when there is no
\* input.
WorkflowStepOmitting(name, input) ==
  IF input = Undefined
    THEN [action |-> name]
    ELSE [action |-> name, input |-> input]

\* { action: gptFunctionCall.name, input }
WorkflowStep(name, input) == [action |-> name, input |-> input]

Thrown(e) == [ok |-> FALSE, workflow |-> <<>>, error |-> e]

\* Variant of gptFunctionCallToWorkflow that decodes the arguments but does
\* not run the input parser on them.
gptFunctionCallToWorkflowUnvalidated(gptFunctionCall, actions) ==
  IF ~HasName(gptFunctionCall) THEN Thrown(MissingNameError)
  ELSE
    LET action == GetProperty(actions, gptFunctionCall.name) IN
    IF action.is = "undefined" THEN Thrown(UnknownFunctionError(gptFunctionCall.name))
    ELSE IF IsUnary(action)
      THEN LET json == JSONparse(ArgumentsText(gptFunctionCall)) IN
           IF ~json.ok THEN Thrown(json.error)
           ELSE [ok |-> TRUE,
                 workflow |-> <<WorkflowStep(gptFunctionCall.name, json.value)>>,
                 error |-> NoError]
    ELSE [ok |-> TRUE,
          workflow |-> <<WorkflowStep(gptFunctionCall.name, Undefined)>>,
          error |-> NoError]

gptFunctionCallToWorkflow(gptFunctionCall, actions) ==
  IF ~HasName(gptFunctionCall) THEN Thrown(MissingNameError)
  ELSE
    LET action == GetProperty(actions, gptFunctionCall.name) IN
    IF action.is = "undefined" THEN Thrown(UnknownFunctionError(gptFunctionCall.name))
    ELSE IF IsUnary(action)
      THEN LET json == JSONparse(ArgumentsText(gptFunctionCall)) IN
           IF ~json.ok THEN Thrown(json.error)
           ELSE LET input == InputParserParse(action.action._inputParser, json.value) IN
                IF ~input.ok THEN Thrown(input.error)
                ELSE [ok |-> TRUE,
                      workflow |-> <<WorkflowStep(gptFunctionCall.name, input.value)>>,
                      error |-> NoError]
    ELSE [ok |-> TRUE,
          workflow |-> <<WorkflowStep(gptFunctionCall.name, Undefined)>>,
          error |-> NoError]

----------------------------------------------------------------------------
(* callFunction                                                            *)

\* The promise awaited at line 178 when nothing was invoked.
NoPromise == [settles |-> "never", value |-> Undefined, rejection |-> NoError]

Raised(e, invoked) ==
  [threw |-> TRUE, error |-> e, invoked |-> invoked, promise |-> NoPromise]

Awaited(invoked, promise) ==
  [threw |-> FALSE, error |-> NoError, invoked |-> invoked, promise |-> promise]

\* What a registered handler returns for an input: it names the handler
\* and echoes the input it was given.
HandlerResult(key, input) == Obj(input.fields \cup {<<"handledBy", <<"string", key>>>>})

(* The handler of an action, run on an input.  It bumps the counter (the   *)
(* invocation is recorded) and then returns, throws, rejects later, or     *)
(* never completes, as the registry says.                                  *)
InvokeHandler(key, action, input) ==
  LET inv == <<[key |-> key, input |-> input]>> IN
  CASE action.handler = "return" ->
         Awaited(inv, [settles |-> "resolve", value |-> HandlerResult(key, input),
                       rejection |-> NoError])
    [] action.handler = "throw" -> Raised(HandlerFailure(key), inv)
    [] action.handler = "reject" ->
         Awaited(inv, [settles |-> "reject", value |-> Undefined,
                       rejection |-> HandlerFailure(key)])
    [] OTHER -> Awaited(inv, NoPromise)

(* Action.call of ~/core/action: a unary action validates the argument     *)
(* with its input parser and hands the parsed value to the handler; a      *)
(* nullary action runs the handler with no input.                          *)
ActionCall(key, action, args) ==
  IF action._args = "unary"
    THEN LET input == InputParserParse(action._inputParser, args[1]) IN
         IF ~input.ok THEN Raised(input.error, <<>>)
         ELSE InvokeHandler(key, action, input.value)
  ELSE InvokeHandler(key, action, Undefined)

\* Variant of CallMember that runs the handler of an action directly,
\* without going through Action.call.
CallMemberDirect(p, args) ==
  CASE p.is = "action" ->
         InvokeHandler(p.key, p.action, IF args = <<>> THEN Undefined ELSE args[1])
    [] p.is = "function" ->
         Awaited(<<>>, [settles |-> "resolve", value |-> StringValue("[object Undefined]"),
                        rejection |-> NoError])
    [] OTHER -> Raised(NotCallableError, <<>>)

(* action.call(...) on whatever actions[name] gave.  An inherited          *)
(* function has Function.prototype.call: Object.prototype.toString run     *)
(* with no this returns "[object Undefined]".  Object.prototype has no     *)
(* call member.                                                            *)
CallMember(p, args) ==
  CASE p.is = "action" -> ActionCall(p.key, p.action, args)
    [] p.is = "function" ->
         Awaited(<<>>, [settles |-> "resolve", value |-> StringValue("[object Undefined]"),
                        rejection |-> NoError])
    [] OTHER -> Raised(NotCallableError, <<>>)

\* callFunction up to its await: lines 170-180.
callFunctionStart(gptFunctionCall, actions) ==
  IF ~HasName(gptFunctionCall) THEN Raised(MissingNameError, <<>>)
  ELSE
    LET action == GetProperty(actions, gptFunctionCall.name) IN
    IF action.is = "undefined"
      THEN Raised(UnknownFunctionError(gptFunctionCall.name), <<>>)
    ELSE IF IsUnary(action)
      THEN LET json == JSONparse(ArgumentsText(gptFunctionCall)) IN
           IF ~json.ok THEN Raised(json.error, <<>>)
           ELSE CallMember(action, <<json.value>>)
    ELSE CallMember(action, <<>>)

\* Variant of CallResult that returns without the awaited value.
CallResultUnawaited(gptFunctionCall, result) ==
  [action |-> gptFunctionCall.name, result |-> Undefined]

\* { action: gptFunctionCall.name, result }
CallResult(gptFunctionCall, result) ==
  [action |-> gptFunctionCall.name, result |-> result]

----------------------------------------------------------------------------
(* The state machine: an application that holds one registry and makes     *)
(* up to MaxCalls adapter calls, whose handlers complete in any order.     *)

NoRecord == [q \in {} |-> ""]

IdleCall ==
  [op |-> "none", rec |-> NoRecord, pc |-> "idle", workflow |-> <<>>, ret |-> <<>>,
   error |-> NoError, invoked |-> <<>>, promise |-> NoPromise]

Init ==
  /\ registry \in Registries
  /\ calls = [c \in CallIds |-> IdleCall]
  /\ counter = 0
  /\ exported = [done |-> FALSE, functions |-> <<>>]

\* The application exports the registry.
Export ==
  /\ exported' = [done |-> TRUE, functions |-> gptFunctions(registry)]
  /\ UNCHANGED <<registry, calls, counter>>

\* The application parses a call record into a workflow.
Parse(c, rec) ==
  /\ calls[c].pc = "idle"
  /\ LET out == gptFunctionCallToWorkflow(rec, registry) IN
       calls' = [calls EXCEPT ![c] =
                   [op |-> "parse", rec |-> rec,
                    pc |-> IF out.ok THEN "done" ELSE "failed",
                    workflow |-> out.workflow, ret |-> <<>>, error |-> out.error,
                    invoked |-> <<>>, promise |-> NoPromise]]
  /\ UNCHANGED <<registry, counter, exported>>

\* The application calls callFunction, which runs up to its await.
CallFunction(c, rec) ==
  /\ calls[c].pc = "idle"
  /\ LET out == callFunctionStart(rec, registry) IN
       /\ calls' = [calls EXCEPT ![c] =
                      [op |-> "execute", rec |-> rec,
                       pc |-> IF out.threw THEN "failed" ELSE "awaiting",
                       workflow |-> <<>>, ret |-> <<>>, error |-> out.error,
                       invoked |-> out.invoked, promise |-> out.promise]]
       /\ counter' = counter + Len(out.invoked)
  /\ UNCHANGED <<registry, exported>>

\* Variant of HandlerSettle for a callFunction that serialises its calls: a
\* call resumes only when no earlier call is still awaiting its handler.
HandlerSettleSerialised(c) ==
  /\ calls[c].pc = "awaiting"
  /\ calls[c].promise.settles # "never"
  /\ \A d \in CallIds : d < c => calls[d].pc # "awaiting"
  /\ calls' = [calls EXCEPT ![c] =
       IF calls[c].promise.settles = "resolve"
         THEN [@ EXCEPT !.pc = "done",
                        !.ret = <<[action |-> calls[c].rec.name,
                                   result |-> calls[c].promise.value]>>]
         ELSE [@ EXCEPT !.pc = "failed", !.error = calls[c].promise.rejection]]
  /\ UNCHANGED <<registry, counter, exported>>

\* The awaited promise settles and callFunction returns or rejects.
HandlerSettle(c) ==
  /\ calls[c].pc = "awaiting"
  /\ calls[c].promise.settles # "never"
  /\ calls' = [calls EXCEPT ![c] =
       IF calls[c].promise.settles = "resolve"
         THEN [@ EXCEPT !.pc = "done",
                        !.ret = <<CallResult(calls[c].rec, calls[c].promise.value)>>]
         ELSE [@ EXCEPT !.pc = "failed", !.error = calls[c].promise.rejection]]
  /\ UNCHANGED <<registry, counter, exported>>

Next ==
  \/ Export
  \/ \E c \in CallIds, rec \in CallRecords : Parse(c, rec)
  \/ \E c \in CallIds, rec \in CallRecords : CallFunction(c, rec)
  \/ \E c \in CallIds : HandlerSettle(c)

Spec == Init /\ [][Next]_vars

\* Every handler promise that can settle does settle; the event loop then
\* resumes the call awaiting it.
FairSpec == Spec /\ \A c \in CallIds : WF_vars(HandlerSettle(c))

----------------------------------------------------------------------------
(* Vocabulary of the properties.                                           *)

ErrorKinds == {"MissingName", "UnknownAction", "MalformedArguments", "InputValidation"}

\* The error kind a caller distinguishes in a raised error.
KindOf(e) ==
  CASE e = NoError -> "none"
    [] e = MissingNameError -> "MissingName"
    [] e.type = "Error" /\ e.msg = "Unknown function" -> "UnknownAction"
    [] e.type = "SyntaxError" -> "MalformedArguments"
    [] e.type = "ZodError" -> "InputValidation"
    [] OTHER -> "other"

\* The record names an action: it has a non-empty name.
NameGiven(rec) == "name" \in DOMAIN rec /\ rec.name # ""

\* The registry entry registered under a key.
EntryOf(R, n) == R[CHOOSE i \in DOMAIN R : R[i].key = n].action

\* The argument text of a record, absent arguments read as the empty object.
SuppliedText(rec) == IF "arguments" \in DOMAIN rec THEN rec.arguments ELSE "{}"

(* The first check that applies to a record, in the order name presence,   *)
(* name resolution, argument decode, argument validation; "none" when the  *)
(* record reaches invocation.                                              *)
FirstApplicable(rec, R) ==
  IF ~NameGiven(rec) THEN "MissingName"
  ELSE IF rec.name \notin OwnKeys(R) THEN "UnknownAction"
  ELSE IF EntryOf(R, rec.name)._args # "unary" THEN "none"
  ELSE IF ~JSONparse(SuppliedText(rec)).ok THEN "MalformedArguments"
  ELSE IF ~InputParserParse(EntryOf(R, rec.name)._inputParser,
                            JSONparse(SuppliedText(rec)).value).ok
    THEN "InputValidation"
  ELSE "none"

\* The record passes resolution, decoding and validation.
Passes(rec, R) == FirstApplicable(rec, R) = "none"

\* The input the handler is due for a record that passes.
ValidatedInput(rec, R) ==
  IF EntryOf(R, rec.name)._args = "unary"
    THEN InputParserParse(EntryOf(R, rec.name)._inputParser,
                          JSONparse(SuppliedText(rec)).value).value
    ELSE Undefined

Parsed(c) == calls[c].op = "parse"

Executed(c) == calls[c].op = "execute"

\* The error kind a call has reported so far.
Reported(c) == IF calls[c].pc = "failed" THEN KindOf(calls[c].error) ELSE "none"

----------------------------------------------------------------------------
(* C1: every parse and every execute call reports the first check that     *)
(* applies, in the order name presence, name resolution, argument decode,  *)
(* argument validation, invocation: a call to which one of the four        *)
(* checks applies fails with that kind, and a call to which none applies   *)
(* fails with none of the four kinds.                                      *)
C1_FirstApplicableReported ==
  \A c \in CallIds :
    calls[c].op # "none" =>
      LET k == FirstApplicable(calls[c].rec, registry) IN
        IF k \in ErrorKinds THEN Reported(c) = k ELSE Reported(c) \notin ErrorKinds

(* C5: a call whose name is given but is not a key of the registry fails   *)
(* with the unknown-action error naming that name, yields no step and no   *)
(* result, and invokes nothing.                                            *)
C5_UnknownNameFails ==
  \A c \in CallIds :
    (calls[c].op # "none" /\ NameGiven(calls[c].rec)
       /\ calls[c].rec.name \notin OwnKeys(registry)) =>
      /\ calls[c].pc = "failed"
      /\ calls[c].error = UnknownFunctionError(calls[c].rec.name)
      /\ calls[c].workflow = <<>>
      /\ calls[c].ret = <<>>
      /\ calls[c].invoked = <<>>

(* C10: every exported descriptor's name, sent back in a call record with  *)
(* valid arguments, resolves in parse and in execute to the registry       *)
(* entry the descriptor was exported from.                                 *)
C10_ExportedNameResolves ==
  exported.done =>
    \A i \in DOMAIN exported.functions :
      LET e == ObjectEntries(registry)[i]
          rec == [name |-> exported.functions[i].name, arguments |-> TextParis]
          p == GetProperty(registry, rec.name)
          run == callFunctionStart(rec, registry)
      IN  /\ gptFunctionCallToWorkflow(rec, registry).ok
          /\ p.is = "action"
          /\ p.key = e.key
          /\ Len(run.invoked) = 1
          /\ run.invoked[1].key = e.key

(* C2: the counter equals the number of execute calls that passed name     *)
(* resolution, argument decoding and argument validation; a parse call     *)
(* invokes no handler, and an execute call that failed with one of the     *)
(* four error kinds invoked none.                                          *)
C2_CounterCountsValidExecutes ==
  /\ counter = Cardinality({c \in CallIds : Executed(c) /\ Passes(calls[c].rec, registry)})
  /\ \A c \in CallIds : Parsed(c) => calls[c].invoked = <<>>
  /\ \A c \in CallIds :
       (Executed(c) /\ Reported(c) \in ErrorKinds) => calls[c].invoked = <<>>

\* A parse that succeeded and an execute that ran a handler, counted once.
C2_Witness ==
  \E c, d \in CallIds :
    /\ Parsed(c) /\ calls[c].pc = "done"
    /\ Executed(d) /\ Len(calls[d].invoked) = 1
    /\ counter = 1

(* C3: an execute call fails with one of the four error kinds exactly      *)
(* when parsing the same record fails with that kind, and when the parse   *)
(* of a record for a unary action succeeds with input v, the execute call  *)
(* invokes the handler with v.                                             *)
C3_ParseExecuteAgree ==
  \A c \in CallIds :
    Executed(c) =>
      LET p == gptFunctionCallToWorkflow(calls[c].rec, registry) IN
        /\ \A k \in ErrorKinds : (~p.ok /\ KindOf(p.error) = k) <=> (Reported(c) = k)
        /\ (p.ok /\ IsUnary(GetProperty(registry, calls[c].rec.name))) =>
             /\ Len(calls[c].invoked) = 1
             /\ calls[c].invoked[1].input = p.workflow[1].input

\* The same record parsed and executed for a unary action: same input.
C3_Witness ==
  \E c, d \in CallIds :
    /\ Parsed(c) /\ Executed(d) /\ calls[c].rec = calls[d].rec
    /\ calls[c].pc = "done"
    /\ NameGiven(calls[c].rec)
    /\ IsUnary(GetProperty(registry, calls[c].rec.name))
    /\ Len(calls[d].invoked) = 1
    /\ calls[d].invoked[1].input = calls[c].workflow[1].input
    /\ calls[c].workflow[1].input # JSONparse(SuppliedText(calls[c].rec)).value

(* C4, as stated: in every step of a successful parse the input key is    *)
(* present exactly when the resolved action is unary.                      *)
C4_InputKeyIffUnary ==
  \A c \in CallIds :
    (Parsed(c) /\ calls[c].pc = "done") =>
      \A i \in DOMAIN calls[c].workflow :
        ("input" \in DOMAIN calls[c].workflow[i])
          <=> IsUnary(GetProperty(registry, calls[c].rec.name))

(* C4, amended: a successful parse returns one step that always has both   *)
(* keys, action (the requested name) and input; input holds the input      *)
(* parser's result when the resolved action is unary and the value         *)
(* undefined otherwise.                                                    *)
C4_InputKeyAlwaysPresent ==
  \A c \in CallIds :
    (Parsed(c) /\ calls[c].pc = "done") =>
      /\ Len(calls[c].workflow) = 1
      /\ DOMAIN calls[c].workflow[1] = {"action", "input"}
      /\ calls[c].workflow[1].action = calls[c].rec.name
      /\ calls[c].workflow[1].input =
           IF calls[c].rec.name \in OwnKeys(registry)
             THEN ValidatedInput(calls[c].rec, registry)
             ELSE Undefined

\* A parse of a call to a nullary action: the step has an input key, whose
\* value is undefined.
C4_Witness ==
  \E c \in CallIds :
    /\ Parsed(c) /\ calls[c].pc = "done"
    /\ calls[c].rec.name \in OwnKeys(registry)
    /\ EntryOf(registry, calls[c].rec.name)._args = "nullary"
    /\ "input" \in DOMAIN calls[c].workflow[1]
    /\ calls[c].workflow[1].input = Undefined

(* C6: gptFunctions returns one descriptor per registry entry, in          *)
(* iteration order: as many descriptors as the registry has keys, the      *)
(* i-th named by the i-th entry's display name when it has one and by its  *)
(* key otherwise.                                                          *)
C6_OneDescriptorPerEntry ==
  exported.done =>
    /\ Len(exported.functions) = Cardinality(OwnKeys(registry))
    /\ \A i \in DOMAIN exported.functions :
         LET e == ObjectEntries(registry)[i] IN
           exported.functions[i].name =
             IF "name" \in DOMAIN e.action THEN e.action.name ELSE e.key

\* An export of a registry with a display name that differs from its key
\* and with an entry exported under its key.
C6_Witness ==
  /\ exported.done
  /\ \E i, j \in DOMAIN exported.functions :
       /\ "name" \in DOMAIN ObjectEntries(registry)[i].action
       /\ exported.functions[i].name # ObjectEntries(registry)[i].key
       /\ "name" \notin DOMAIN ObjectEntries(registry)[j].action
       /\ exported.functions[j].name = ObjectEntries(registry)[j].key

(* C7: an execute call that passed resolution, decoding and validation     *)
(* ends as its handler does: it resolves only when the handler returned,   *)
(* to {action: the requested name, result: the handler's value}, and it    *)
(* fails only when the handler threw or rejected, with the handler's own   *)
(* error.                                                                  *)
C7_OutcomeIsHandlerOutcome ==
  \A c \in CallIds :
    (Executed(c) /\ Passes(calls[c].rec, registry)) =>
      LET n == calls[c].rec.name
          h == EntryOf(registry, n).handler
      IN  /\ calls[c].pc = "done" =>
               /\ h = "return"
               /\ calls[c].ret =
                    <<[action |-> n,
                       result |-> HandlerResult(n, ValidatedInput(calls[c].rec, registry))]>>
          /\ calls[c].pc = "failed" =>
               /\ h \in {"throw", "reject"}
               /\ calls[c].error = HandlerFailure(n)
          /\ h = "throw" => calls[c].pc = "failed"
          /\ (calls[c].pc = "awaiting" /\ calls[c].promise.settles = "reject") =>
               calls[c].promise.rejection = HandlerFailure(n)

\* A call that resolved to its handler's result for a validated input.
C7_Witness ==
  \E c \in CallIds :
    /\ Executed(c) /\ Passes(calls[c].rec, registry)
    /\ calls[c].pc = "done"
    /\ EntryOf(registry, calls[c].rec.name)._args = "unary"
    /\ Len(calls[c].ret) = 1
    /\ calls[c].ret[1].result.tag = "object"

\* Each valid execute call ran its handler once, on its own input, and a
\* finished one holds its own handler's result under its own name.
C8_OwnInvocation ==
  \A c \in CallIds :
    (Executed(c) /\ Passes(calls[c].rec, registry)) =>
      /\ calls[c].invoked =
           <<[key |-> calls[c].rec.name,
              input |-> ValidatedInput(calls[c].rec, registry)]>>
      /\ calls[c].pc = "done" =>
           calls[c].ret =
             <<[action |-> calls[c].rec.name,
                result |-> HandlerResult(calls[c].rec.name,
                                         ValidatedInput(calls[c].rec, registry))]>>

\* The call awaits a handler that completes.
C8_Completing(c) ==
  /\ Executed(c) /\ calls[c].pc = "awaiting"
  /\ calls[c].promise.settles # "never"

(* C8: execute calls in flight together are independent: each valid call   *)
(* invokes its handler exactly once with its own validated input and       *)
(* completes with its own result under its own name, and a call whose      *)
(* handler completes finishes whatever the other calls do, also while      *)
(* another call's handler never completes.                                 *)
C8_CallsIndependent ==
  /\ []C8_OwnInvocation
  /\ \A c \in CallIds : C8_Completing(c) ~> (calls[c].pc \in {"done", "failed"})

\* One call finished while another, started on a handler that never
\* completes, is still waiting; both ran their handlers.
C8_Witness ==
  \E c, d \in CallIds :
    /\ c < d
    /\ Executed(c) /\ calls[c].pc = "awaiting" /\ calls[c].promise.settles = "never"
    /\ Len(calls[c].invoked) = 1
    /\ Executed(d) /\ calls[d].pc = "done"
    /\ Len(calls[d].invoked) = 1
    /\ counter = 2

(* C9: a call with no arguments field is handled as the same call with     *)
(* arguments "{}"; for a unary action whose input parser accepts the       *)
(* empty object, parse succeeds with the parser's result for {} and        *)
(* execute invokes the handler with that value; an absent arguments field  *)
(* never yields a malformed-arguments error.                               *)
C9_AbsentArgumentsAreEmptyObject ==
  \A c \in CallIds :
    (calls[c].op # "none" /\ "arguments" \notin DOMAIN calls[c].rec) =>
      LET rec == calls[c].rec
          withEmpty == [k \in DOMAIN rec \cup {"arguments"} |->
                          IF k = "arguments" THEN "{}" ELSE rec[k]]
      IN  /\ Reported(c) # "MalformedArguments"
          /\ Parsed(c) =>
               /\ calls[c].workflow = gptFunctionCallToWorkflow(withEmpty, registry).workflow
               /\ calls[c].error = gptFunctionCallToWorkflow(withEmpty, registry).error
          /\ Executed(c) =>
               /\ calls[c].invoked = callFunctionStart(withEmpty, registry).invoked
               /\ callFunctionStart(withEmpty, registry).threw =>
                    /\ calls[c].pc = "failed"
                    /\ calls[c].error = callFunctionStart(withEmpty, registry).error
          /\ (/\ NameGiven(rec)
              /\ rec.name \in OwnKeys(registry)
              /\ EntryOf(registry, rec.name)._args = "unary"
              /\ InputParserParse(EntryOf(registry, rec.name)._inputParser, Obj({})).ok) =>
               LET v == InputParserParse(EntryOf(registry, rec.name)._inputParser,
                                         Obj({})).value
               IN  /\ Parsed(c) =>
                        /\ calls[c].pc = "done"
                        /\ calls[c].workflow[1].input = v
                   /\ Executed(c) =>
                        /\ Len(calls[c].invoked) = 1
                        /\ calls[c].invoked[1].input = v

\* A parse and an execute without arguments for an action whose parser
\* accepts {} and fills in a default.
C9_Witness ==
  \E c, d \in CallIds :
    /\ Parsed(c) /\ Executed(d)
    /\ calls[c].rec = calls[d].rec
    /\ DOMAIN calls[c].rec = {"name"}
    /\ calls[c].pc = "done"
    /\ calls[c].workflow[1].input = Obj({<<"location", <<"string", "here">>>>})
    /\ Len(calls[d].invoked) = 1
    /\ calls[d].invoked[1].input = Obj({<<"location", <<"string", "here">>>>})

====
